---------------------------- MODULE Spec2Model ----------------------------
(***************************************************************************)
(* Model of nipoppy's dataset layout (nipoppy_cli/nipoppy/layout.py):      *)
(* the LayoutConfig schema, the DatasetLayout resolver bound to a dataset  *)
(* root, its memoized views, validate() and the pipeline path algebra.     *)
(*                                                                         *)
(* Python strings that end up in a path are sequences of one-character     *)
(* strings, so that pathlib's parsing and joining are computed, not        *)
(* assumed.  Labels and attribute names are never parsed and stay atomic.  *)
(***************************************************************************)
EXTENDS Naturals, Sequences, FiniteSets, TLC

VARIABLES
    pc,         \* "start" | "ready" | "failed": position of the caller
    arg,        \* arguments of DatasetLayout(dpath_root, fpath_config)
    files,      \* layout config files on disk: path argument -> document or Absent
    fs,         \* paths that exist on disk (what Path.exists() answers)
    layout,     \* the constructed DatasetLayout object, or NoneVal
    ret,        \* the last call: its name, arguments and outcome
    hist,       \* what the caller has seen so far (observations across calls)
    threads     \* reader threads of the memoized views: call stack and results

vars == <<pc, arg, files, fs, layout, ret, hist, threads>>

(***************************************************************************)
(* Bounds of the model.                                                    *)
(***************************************************************************)
MaxOverrides == 1      \* entries of the sample document replaced at once
MaxMissing == 3        \* filesystem nodes absent (or present) at once
MaxMissingLabels == 1  \* labels dropped from a document at once

(***************************************************************************)
(* Python values.                                                          *)
(***************************************************************************)
NoneVal == [t |-> "None"]
Absent == [t |-> "absent"]
StrVal(s) == [t |-> "str", s |-> s]
JsonNull == [t |-> "null"]
JsonNum(n) == [t |-> "num", n |-> n]

\* sequencing: evaluate `value` once, then continue with it
Then(value, Continue(_)) == CHOOSE out \in {Continue(r) : r \in {value}} : TRUE

(***************************************************************************)
(* pathlib (POSIX flavour).  A path is its anchor ("" for a relative path, *)
(* "/" or "//") and its parts after the anchor.                            *)
(***************************************************************************)
\* the number of leading slashes of s
LeadingSlashes(s) ==
    Cardinality({n \in 1..Len(s) : \A i \in 1..n : s[i] = "/"})

\* the root of a parsed string: exactly two leading slashes are kept
PathAnchor(s) ==
    Then(LeadingSlashes(s), LAMBDA n :
        IF n = 0 THEN "" ELSE IF n = 2 THEN "//" ELSE "/")

KeepPart(part) == part # <<>> /\ part # <<".">>

\* the piece of s that starts after position a and ends before the next
\* separator
PartAfter(s, a) ==
    Then({b \in (a + 1)..Len(s) : s[b] = "/"}, LAMBDA later :
        SubSeq(s, a + 1,
               IF later = {} THEN Len(s)
               ELSE (CHOOSE b \in later : \A c \in later : b <= c) - 1))

\* where the kept parts of s start (0, or the position of a separator):
\* empty and "." parts are dropped
PartStarts(s) ==
    {a \in 0..Len(s) : (a = 0 \/ s[a] = "/") /\ KeepPart(PartAfter(s, a))}

\* the elements of a set of numbers in increasing order
Sorted(S) ==
    [k \in 1..Cardinality(S) |->
        CHOOSE a \in S : Cardinality({x \in S : x < a}) = k - 1]

\* the parts of s: split at "/", empty and "." parts dropped
SplitParts(s) ==
    Then(PartStarts(s), LAMBDA starts :
    Then(Sorted(starts), LAMBDA order :
        [k \in 1..Len(order) |-> PartAfter(s, order[k])]))

\* Path(s)
PathOf(s) == [anchor |-> PathAnchor(s), parts |-> SplitParts(s)]

IsAbsolute(p) == p.anchor # ""

\* p / q for two paths: an anchored right operand replaces the left one
PathJoin(p, q) ==
    IF IsAbsolute(q) THEN q
    ELSE [anchor |-> p.anchor, parts |-> p.parts \o q.parts]

\* p / s for a string s
PathJoinStr(p, s) == Then(PathOf(s), LAMBDA q : PathJoin(p, q))

\* p.parent, and the ancestors of p (p included)
IsPrefixSeq(a, b) == Len(a) <= Len(b) /\ SubSeq(b, 1, Len(a)) = a
IsUnder(p, base) == p.anchor = base.anchor /\ IsPrefixSeq(base.parts, p.parts)
Ancestors(p) ==
    {[anchor |-> p.anchor, parts |-> SubSeq(p.parts, 1, n)] : n \in 0..Len(p.parts)}

\* Path.exists()
exists(p, disk) == p \in disk

(***************************************************************************)
(* LayoutConfig: the closed set of fields, in declaration order, and the   *)
(* PathInfo subclass of each.                                              *)
(***************************************************************************)
Fields ==
    << "dpath_bids", "dpath_derivatives", "dpath_sourcedata", "dpath_downloads",
       "dpath_proc", "dpath_releases", "dpath_containers", "dpath_descriptors",
       "dpath_invocations", "dpath_scripts", "dpath_pybids", "dpath_bids_db",
       "dpath_bids_ignore_patterns", "dpath_scratch", "dpath_raw_dicom",
       "dpath_logs", "dpath_tabular", "dpath_assessments", "dpath_demographics",
       "fpath_config", "fpath_manifest", "fpath_doughnut", "fpath_imaging_bagel" >>

Labels == {Fields[i] : i \in 1..Len(Fields)}

FieldType(label) ==
    IF label \in {"fpath_doughnut", "fpath_imaging_bagel"} THEN "OptionalFpathInfo"
    ELSE IF label \in {"fpath_config", "fpath_manifest"} THEN "FpathInfo"
    ELSE "DpathInfo"

\* PathInfo._is_directory and PathInfo._is_required, fixed by the subclass
is_directory(info) == info.cls = "DpathInfo"
is_required(info) == info.cls # "OptionalFpathInfo"

\* PathInfo(**entry): `path` is required and must be a string,
\* `description` is an optional string
ValidEntry(entry) ==
    /\ "path" \in DOMAIN entry
    /\ entry["path"].t = "str"
    /\ "description" \in DOMAIN entry => entry["description"].t \in {"str", "null"}

MakePathInfo(label, entry) ==
    [cls |-> FieldType(label),
     path |-> PathOf(entry["path"].s),
     description |-> IF "description" \in DOMAIN entry /\ entry["description"].t = "str"
                     THEN entry["description"]
                     ELSE NoneVal]

\* ConfigValid without extra="forbid": unknown keys are ignored
ConfigValid_extra_ignored(document) ==
    /\ \A l \in Labels : l \in DOMAIN document
    /\ \A l \in Labels : ValidEntry(document[l])

\* LayoutConfig(**document) passes validation: every field present,
\* no other key (extra="forbid"), every entry a PathInfo
ConfigValid(document) ==
    /\ \A l \in Labels : l \in DOMAIN document
    /\ \A k \in DOMAIN document : k \in Labels
    /\ \A l \in Labels : ValidEntry(document[l])

\* the LayoutConfig object: its fields, and its instance dictionary,
\* where cached_property stores path_labels and path_infos
LayoutConfig(document) ==
    [fields |-> [l \in Labels |-> MakePathInfo(l, document[l])],
     cache |-> [path_labels |-> NoneVal, path_infos |-> NoneVal]]

\* a value held in an instance dictionary by cached_property
Cached(v) == [t |-> "cached", v |-> v]

\* the outcome of a call: the object after it, and what it returned or raised
Outcome(self, val) == [self |-> self, val |-> val]
Raise(exc) == [k |-> "raise", exc |-> exc]
PathVal(p) == [k |-> "path", p |-> p]
ListVal(l) == [k |-> "list", l |-> l]
IsRaise(val) == val.k = "raise"

\* list(self.model_dump().keys()): the fields in declaration order
LabelsOf(cfg) == Fields

\* [getattr(self, path_label) for path_label in labels]
InfosOf(cfg, labels) == [i \in 1..Len(labels) |-> cfg.fields[labels[i]]]

\* LayoutConfig.path_labels (cached_property)
path_labels(cfg) ==
    IF cfg.cache.path_labels # NoneVal
    THEN Outcome(cfg, cfg.cache.path_labels.v)
    ELSE Then(LabelsOf(cfg), LAMBDA v :
            Outcome([cfg EXCEPT !.cache.path_labels = Cached(v)], v))

\* LayoutConfig.path_infos (cached_property)
path_infos(cfg) ==
    IF cfg.cache.path_infos # NoneVal
    THEN Outcome(cfg, cfg.cache.path_infos.v)
    ELSE Then(path_labels(cfg), LAMBDA r :
         Then(InfosOf(r.self, r.val), LAMBDA v :
            Outcome([r.self EXCEPT !.cache.path_infos = Cached(v)], v)))

\* other attributes of a LayoutConfig object that getattr finds
ConfigAttributes == {"path_labels", "path_infos", "model_config", "get_path_info"}

\* LayoutConfig.get_path_info: getattr(self, path_label)
get_path_info(cfg, path_label) ==
    IF path_label \in Labels
    THEN Outcome(cfg, [k |-> "info", info |-> cfg.fields[path_label]])
    ELSE IF path_label = "path_labels"
    THEN Then(path_labels(cfg), LAMBDA r : Outcome(r.self, ListVal(r.val)))
    ELSE IF path_label = "path_infos"
    THEN Then(path_infos(cfg), LAMBDA r : Outcome(r.self, ListVal(r.val)))
    ELSE IF path_label \in ConfigAttributes
    THEN Outcome(cfg, [k |-> "attribute", name |-> path_label])
    ELSE Outcome(cfg, Raise("AttributeError"))

(***************************************************************************)
(* DatasetLayout.                                                          *)
(***************************************************************************)
Chars_work == <<"w", "o", "r", "k">>
Chars_output == <<"o", "u", "t", "p", "u", "t">>

\* the object __init__ leaves behind once the config is loaded
DatasetLayout(dpath_root, fpath_config, config) ==
    [dpath_root |-> PathOf(dpath_root),
     fpath_spec |-> PathOf(fpath_config),
     config |-> config,
     dname_pipeline_work |-> Chars_work,
     dname_pipeline_output |-> Chars_output,
     cache |-> [dpaths |-> NoneVal, fpaths |-> NoneVal, dpath_descriptions |-> NoneVal]]

\* DatasetLayout.get_full_path
get_full_path(self, path) == PathJoin(self.dpath_root, path)

\* PathsOf with include_optional forgotten: optional entries are always kept
PathsOf_optional_kept(self, infos, directory, include_optional) ==
    LET keep(info) == directory = is_directory(info)
    IN  Then(SelectSeq(infos, keep), LAMBDA kept :
            [i \in 1..Len(kept) |-> get_full_path(self, kept[i].path)])

\* the comprehension of get_paths over a given list of PathInfo
PathsOf(self, infos, directory, include_optional) ==
    LET keep(info) == /\ directory = is_directory(info)
                      /\ (include_optional \/ is_required(info))
    IN  Then(SelectSeq(infos, keep), LAMBDA kept :
            [i \in 1..Len(kept) |-> get_full_path(self, kept[i].path)])

\* DatasetLayout.get_paths
get_paths(self, directory, include_optional) ==
    Then(path_infos(self.config), LAMBDA r :
        Outcome([self EXCEPT !.config = r.self],
                PathsOf(self, r.val, directory, include_optional)))

\* DatasetLayout.dpaths (cached_property)
dpaths(self) ==
    IF self.cache.dpaths # NoneVal
    THEN Outcome(self, self.cache.dpaths.v)
    ELSE Then(get_paths(self, TRUE, FALSE), LAMBDA r :
            Outcome([r.self EXCEPT !.cache.dpaths = Cached(r.val)], r.val))

\* DatasetLayout.fpaths (cached_property)
fpaths(self) ==
    IF self.cache.fpaths # NoneVal
    THEN Outcome(self, self.cache.fpaths.v)
    ELSE Then(get_paths(self, FALSE, FALSE), LAMBDA r :
            Outcome([r.self EXCEPT !.cache.fpaths = Cached(r.val)], r.val))

\* the comprehension of dpath_descriptions over a given list of PathInfo
DescriptionsOf(self, infos) ==
    LET keep(info) == is_directory(info) /\ info.description # NoneVal
    IN  Then(SelectSeq(infos, keep), LAMBDA kept :
            [i \in 1..Len(kept) |->
                <<get_full_path(self, kept[i].path), kept[i].description.s>>])

\* DatasetLayout.dpath_descriptions (cached_property)
dpath_descriptions(self) ==
    IF self.cache.dpath_descriptions # NoneVal
    THEN Outcome(self, self.cache.dpath_descriptions.v)
    ELSE Then(path_infos(self.config), LAMBDA r :
         Then(DescriptionsOf(self, r.val), LAMBDA v :
            Outcome([self EXCEPT !.config = r.self,
                                 !.cache.dpath_descriptions = Cached(v)], v)))

\* names that object.__getattribute__ finds on a DatasetLayout besides the
\* cached properties: what __init__ assigned, and the methods of the class
InstanceAttributes ==
    {"dpath_root", "fpath_spec", "config", "dname_pipeline_work", "dname_pipeline_output"}
Methods ==
    {"get_full_path", "get_paths", "validate", "get_dpath_pipeline",
     "get_dpath_pipeline_work", "get_dpath_pipeline_output", "get_dpath_bids_db"}

\* the except branch returning the schema's path as it is, not joined to the root
getattribute_fallback_relative(self, name) ==
    Then(path_labels(self.config), LAMBDA r :
        IF \E i \in 1..Len(r.val) : r.val[i] = name
        THEN Then(get_path_info(r.self, name), LAMBDA g :
                Outcome([self EXCEPT !.config = g.self], PathVal(g.val.info.path)))
        ELSE Outcome([self EXCEPT !.config = r.self], Raise("AttributeError")))

\* the except branch of __getattribute__: the name is looked up among the
\* labels of the config
getattribute_fallback(self, name) ==
    Then(path_labels(self.config), LAMBDA r :
        IF \E i \in 1..Len(r.val) : r.val[i] = name
        THEN Then(get_path_info(r.self, name), LAMBDA g :
                Outcome([self EXCEPT !.config = g.self],
                        PathVal(get_full_path(self, g.val.info.path))))
        ELSE Outcome([self EXCEPT !.config = r.self], Raise("AttributeError")))

\* DatasetLayout.__getattribute__
getattribute(self, name) ==
    IF name \in {"dpath_root", "fpath_spec"}
    THEN Outcome(self, PathVal(self[name]))
    ELSE IF name \in {"dname_pipeline_work", "dname_pipeline_output"}
    THEN Outcome(self, [k |-> "str", s |-> self[name]])
    ELSE IF name = "config" \/ name \in Methods
    THEN Outcome(self, [k |-> "attribute", name |-> name])
    ELSE IF name = "dpaths"
    THEN Then(dpaths(self), LAMBDA r : Outcome(r.self, ListVal(r.val)))
    ELSE IF name = "fpaths"
    THEN Then(fpaths(self), LAMBDA r : Outcome(r.self, ListVal(r.val)))
    ELSE IF name = "dpath_descriptions"
    THEN Then(dpath_descriptions(self), LAMBDA r : Outcome(r.self, ListVal(r.val)))
    ELSE getattribute_fallback(self, name)

\* _find_missing_paths looking at the optional files too
find_missing_paths_with_optional(self, disk) ==
    LET absent(p) == ~exists(p, disk)
    IN  Then(dpaths(self), LAMBDA d :
        Then(get_paths(d.self, FALSE, TRUE), LAMBDA f :
            Outcome(f.self, SelectSeq(d.val, absent) \o SelectSeq(f.val, absent))))

\* DatasetLayout._find_missing_paths
find_missing_paths(self, disk) ==
    LET absent(p) == ~exists(p, disk)
    IN  Then(dpaths(self), LAMBDA d :
        Then(fpaths(d.self), LAMBDA f :
            Outcome(f.self, SelectSeq(d.val, absent) \o SelectSeq(f.val, absent))))

\* DatasetLayout.validate
validate(self, disk) ==
    Then(find_missing_paths(self, disk), LAMBDA m :
        IF Len(m.val) # 0
        THEN Outcome(m.self, [k |-> "raise", exc |-> "FileNotFoundError",
                              count |-> Len(m.val), missing |-> m.val])
        ELSE Outcome(m.self, [k |-> "bool", b |-> TRUE]))

\* nipoppy.utils.get_pipeline_tag: the name, the version and the participant
\* and session that are given, joined by a dash
get_pipeline_tag(pipeline_name, pipeline_version, participant, session) ==
    pipeline_name \o <<"-">> \o pipeline_version
    \o (IF participant # NoneVal THEN <<"-">> \o participant.s ELSE <<>>)
    \o (IF session # NoneVal THEN <<"-">> \o session.s ELSE <<>>)

\* DatasetLayout.get_dpath_pipeline
get_dpath_pipeline(self, pipeline_name, pipeline_version) ==
    Then(getattribute(self, "dpath_derivatives"), LAMBDA r :
        Outcome(r.self,
                PathJoinStr(PathJoinStr(r.val.p, pipeline_name), pipeline_version)))

\* get_dpath_pipeline_work with the participant left out of the tag
get_dpath_pipeline_work_no_participant(self, pipeline_name, pipeline_version, participant, session) ==
    Then(get_dpath_pipeline(self, pipeline_name, pipeline_version), LAMBDA r :
    Then(get_pipeline_tag(pipeline_name, pipeline_version, NoneVal, session),
         LAMBDA tag :
        Outcome(r.self,
                PathJoinStr(PathJoinStr(r.val, r.self.dname_pipeline_work), tag))))

\* DatasetLayout.get_dpath_pipeline_work
get_dpath_pipeline_work(self, pipeline_name, pipeline_version, participant, session) ==
    Then(get_dpath_pipeline(self, pipeline_name, pipeline_version), LAMBDA r :
    Then(get_pipeline_tag(pipeline_name, pipeline_version, participant, session),
         LAMBDA tag :
        Outcome(r.self,
                PathJoinStr(PathJoinStr(r.val, r.self.dname_pipeline_work), tag))))

\* get_dpath_pipeline_output returning what its docstring says,
\* the working directory
get_dpath_pipeline_output_work(self, pipeline_name, pipeline_version) ==
    Then(get_dpath_pipeline(self, pipeline_name, pipeline_version), LAMBDA r :
        Outcome(r.self, PathJoinStr(r.val, r.self.dname_pipeline_work)))

\* DatasetLayout.get_dpath_pipeline_output
get_dpath_pipeline_output(self, pipeline_name, pipeline_version) ==
    Then(get_dpath_pipeline(self, pipeline_name, pipeline_version), LAMBDA r :
        Outcome(r.self, PathJoinStr(r.val, r.self.dname_pipeline_output)))

\* DatasetLayout.get_dpath_bids_db
get_dpath_bids_db(self, pipeline_name, pipeline_version, participant, session) ==
    Then(get_pipeline_tag(pipeline_name, pipeline_version, participant, session),
         LAMBDA dname :
    Then(getattribute(self, "dpath_bids_db"), LAMBDA r :
        Outcome(r.self, PathJoinStr(r.val.p, dname))))

(***************************************************************************)
(* Inputs: the layout documents that may be on disk, the constructor's     *)
(* arguments, the names a caller may ask for, the pipeline identifiers.    *)
(***************************************************************************)
\* an entry of a layout document: a JSON object
Entry(path, description) == [path |-> StrVal(path), description |-> description]
EntryNoDescription(path) == [path |-> StrVal(path)]

\* the document at FPATH_DEFAULT_LAYOUT: every label, nested relative paths,
\* descriptions on some entries only
DefaultDocument ==
    [ dpath_bids |->
        Entry(<<"b", "i", "d", "s">>, StrVal(<<"B">>)),
      dpath_derivatives |->
        Entry(<<"d", "e", "r", "i", "v", "a", "t", "i", "v", "e", "s">>, StrVal(<<"D">>)),
      dpath_sourcedata |->
        EntryNoDescription(<<"s", "o", "u", "r", "c", "e", "d", "a", "t", "a">>),
      dpath_downloads |->
        Entry(<<"d", "o", "w", "n", "l", "o", "a", "d", "s">>, JsonNull),
      dpath_proc |->
        Entry(<<"p", "r", "o", "c">>, StrVal(<<"P">>)),
      dpath_releases |->
        Entry(<<"r", "e", "l", "e", "a", "s", "e", "s">>, JsonNull),
      dpath_containers |->
        EntryNoDescription(<<"p", "r", "o", "c", "/", "c", "o", "n", "t", "a", "i", "n", "e", "r", "s">>),
      dpath_descriptors |->
        Entry(<<"p", "r", "o", "c", "/", "d", "e", "s", "c", "r", "i", "p", "t", "o", "r", "s">>, JsonNull),
      dpath_invocations |->
        EntryNoDescription(<<"p", "r", "o", "c", "/", "i", "n", "v", "o", "c", "a", "t", "i", "o", "n", "s">>),
      dpath_scripts |->
        Entry(<<"p", "r", "o", "c", "/", "s", "c", "r", "i", "p", "t", "s">>, JsonNull),
      dpath_pybids |->
        EntryNoDescription(<<"p", "r", "o", "c", "/", "p", "y", "b", "i", "d", "s">>),
      dpath_bids_db |->
        Entry(<<"p", "r", "o", "c", "/", "p", "y", "b", "i", "d", "s", "/", "b", "i", "d", "s", "_", "d", "b">>, JsonNull),
      dpath_bids_ignore_patterns |->
        EntryNoDescription(<<"p", "r", "o", "c", "/", "p", "y", "b", "i", "d", "s", "/", "i", "g", "n", "o", "r", "e">>),
      dpath_scratch |->
        Entry(<<"s", "c", "r", "a", "t", "c", "h">>, StrVal(<<"S">>)),
      dpath_raw_dicom |->
        EntryNoDescription(<<"s", "c", "r", "a", "t", "c", "h", "/", "r", "a", "w", "_", "d", "i", "c", "o", "m">>),
      dpath_logs |->
        Entry(<<"s", "c", "r", "a", "t", "c", "h", "/", "l", "o", "g", "s">>, JsonNull),
      dpath_tabular |->
        Entry(<<"t", "a", "b", "u", "l", "a", "r">>, StrVal(<<"T">>)),
      dpath_assessments |->
        Entry(<<"t", "a", "b", "u", "l", "a", "r", "/", "a", "s", "s", "e", "s", "s", "m", "e", "n", "t", "s">>, JsonNull),
      dpath_demographics |->
        EntryNoDescription(<<"t", "a", "b", "u", "l", "a", "r", "/", "d", "e", "m", "o", "g", "r", "a", "p", "h", "i", "c", "s">>),
      fpath_config |->
        Entry(<<"p", "r", "o", "c", "/", "c", "o", "n", "f", "i", "g", ".", "j", "s", "o", "n">>, JsonNull),
      fpath_manifest |->
        Entry(<<"t", "a", "b", "u", "l", "a", "r", "/", "m", "a", "n", "i", "f", "e", "s", "t", ".", "c", "s", "v">>, StrVal(<<"M">>)),
      fpath_doughnut |->
        Entry(<<"s", "c", "r", "a", "t", "c", "h", "/", "r", "a", "w", "_", "d", "i", "c", "o", "m", "/", "d", "o", "u", "g", "h", "n", "u", "t", ".", "c", "s", "v">>, JsonNull),
      fpath_imaging_bagel |->
        EntryNoDescription(<<"d", "e", "r", "i", "v", "a", "t", "i", "v", "e", "s", "/", "b", "a", "g", "e", "l", ".", "c", "s", "v">>) ]

\* path of the packaged default layout (nipoppy.utils.FPATH_DEFAULT_LAYOUT)
FPATH_DEFAULT_LAYOUT == <<"l", "a", "y", "o", "u", "t", "-", "d", "e", "f", "a", "u", "l", "t", ".", "j", "s", "o", "n">>
\* a layout file the caller supplies
CustomLayoutFile == <<"m", "y", "_", "l", "a", "y", "o", "u", "t", ".", "j", "s", "o", "n">>

\* paths a caller-supplied document may declare in place of the default ones:
\* the path of another directory entry, an absolute path, an unnormalised
\* spelling of a directory another entry names, the path of a required file
Overrides ==
    { <<"dpath_sourcedata", <<"b", "i", "d", "s">>>>,
      <<"dpath_bids", <<"/", "m", "n", "t", "/", "b", "i", "d", "s">>>>,
      <<"fpath_manifest", <<".", "/", "t", "a", "b", "u", "l", "a", "r", "/">>>>,
      <<"fpath_doughnut", <<"t", "a", "b", "u", "l", "a", "r", "/", "m", "a", "n", "i", "f", "e", "s", "t", ".", "c", "s", "v">>>> }

RECURSIVE SubsetsUpTo(_, _)
\* the subsets of S with at most k elements
SubsetsUpTo(S, k) ==
    IF k = 0 THEN {{}}
    ELSE LET smaller == SubsetsUpTo(S, k - 1)
         IN  smaller \cup {T \cup {x} : T \in smaller, x \in S}

Override(document, chosen) ==
    [l \in DOMAIN document |->
        IF \E o \in chosen : o[1] = l
        THEN [document[l] EXCEPT !["path"] = StrVal((CHOOSE o \in chosen : o[1] = l)[2])]
        ELSE document[l]]

\* documents with every label: the default one with some paths replaced
OverrideDocuments ==
    { Override(DefaultDocument, chosen) : chosen \in SubsetsUpTo(Overrides, MaxOverrides) }

\* documents whose keys differ from the fields: labels dropped, keys added
ExtraKeys == {"dpath_extra", "path_labels"}
KeyVariants ==
    { [k \in (Labels \ M) \cup E |->
          IF k \in Labels THEN DefaultDocument[k] ELSE EntryNoDescription(<<"e", "x", "t", "r", "a">>)] :
      M \in SubsetsUpTo(Labels, MaxMissingLabels),
      E \in SUBSET ExtraKeys }

\* documents with an entry that is no PathInfo
MalformedDocuments ==
    { [DefaultDocument EXCEPT !["dpath_bids"] = [description |-> JsonNull]],
      [DefaultDocument EXCEPT !["fpath_manifest"] = [path |-> JsonNum(7)]],
      [DefaultDocument EXCEPT !["dpath_proc"] =
          [path |-> StrVal(<<"p", "r", "o", "c">>), description |-> JsonNum(7)]] }

Documents == OverrideDocuments \cup KeyVariants \cup MalformedDocuments

AbsoluteRoot == <<"/", "d", "a", "t", "a", "/", "s", "t", "u", "d", "y", "1">>
RelativeRoot == <<"s", "t", "u", "d", "y", "1">>

\* what the constructor is given and what it finds on disk: a layout file
\* of the caller's, or no layout file argument and the packaged default
Scenarios ==
    { [dpath_root |-> AbsoluteRoot,
       fpath_config |-> StrVal(CustomLayoutFile),
       files |-> [p \in {PathOf(CustomLayoutFile)} |-> d]] :
      d \in Documents \cup {Absent} }
    \cup
    { [dpath_root |-> RelativeRoot,
       fpath_config |-> NoneVal,
       files |-> [p \in {PathOf(FPATH_DEFAULT_LAYOUT)} |-> d]] :
      d \in {DefaultDocument, Absent} }

AttributeNames ==
    Labels \cup InstanceAttributes \cup {"dpaths", "fpaths", "dpath_descriptions"}
    \cup {"validate", "not_a_real_label", "path_labels", "dpath_extra"}
InfoNames == Labels \cup ConfigAttributes \cup {"not_a_real_label", "dpaths"}

PipelineNames == { <<"f", "m", "r", "i", "p", "r", "e", "p">>, <<"m", "r", "i", "q", "c">> }
PipelineVersions == { <<"2", "3", ".", "1", ".", "3">> }
Participants == { NoneVal, StrVal(<<"s", "u", "b", "-", "0", "1">>), StrVal(<<"s", "u", "b", "-", "0", "2">>) }
Sessions == { NoneVal, StrVal(<<"s", "e", "s", "-", "1">>) }


\* every path the document names under the root, with its ancestors
DiskNodes(dpath_root, document) ==
    UNION { Ancestors(PathJoin(PathOf(dpath_root), PathOf(document[l]["path"].s))) :
            l \in Labels }

\* the ancestors of the root: what exists before anything is created in it
FreshDisk(dpath_root) == Ancestors(PathOf(dpath_root))

(***************************************************************************)
(* The caller: construction, then any call in any order.                   *)
(***************************************************************************)
NoneRet == [k |-> "None"]
Idle == [op |-> "none", args |-> <<>>, val |-> NoneRet]
NoHist == [work |-> NoneVal, first |-> NoneVal, seen |-> {}]
NoThreads == <<>>

\* DatasetLayout.__init__
init(dpath_root, fpath_config, disk_files) ==
    LET fpath == IF fpath_config = NoneVal THEN FPATH_DEFAULT_LAYOUT ELSE fpath_config.s
        found == PathOf(fpath) \in DOMAIN disk_files /\ disk_files[PathOf(fpath)] # Absent
    IN  IF ~found
        THEN Outcome(NoneVal, Raise("FileNotFoundError"))
        ELSE IF ~ConfigValid(disk_files[PathOf(fpath)])
        THEN Outcome(NoneVal, Raise("ValidationError"))
        ELSE Outcome(DatasetLayout(dpath_root, fpath,
                                   LayoutConfig(disk_files[PathOf(fpath)])),
                     NoneRet)

TheDocument ==
    LET fpath == IF arg.fpath_config = NoneVal THEN FPATH_DEFAULT_LAYOUT
                 ELSE arg.fpath_config.s
    IN  files[PathOf(fpath)]

InitCaller ==
    /\ pc = "start"
    /\ \E sc \in Scenarios :
          /\ arg = [dpath_root |-> sc.dpath_root, fpath_config |-> sc.fpath_config]
          /\ files = sc.files
    /\ layout = NoneVal
    /\ ret = Idle
    /\ hist = NoHist
    /\ threads = NoThreads

\* a freshly created, empty dataset root
Init ==
    /\ InitCaller
    /\ fs = FreshDisk(arg.dpath_root)

Construct ==
    /\ pc = "start"
    /\ LET r == init(arg.dpath_root, arg.fpath_config, files)
       IN  /\ layout' = r.self
           /\ ret' = [op |-> "init", args |-> <<>>, val |-> r.val]
           /\ pc' = IF IsRaise(r.val) THEN "failed" ELSE "ready"
    /\ UNCHANGED <<arg, files, fs, threads>>

Call(op, args, r) ==
    /\ pc = "ready"
    /\ layout' = r.self
    /\ ret' = [op |-> op, args |-> args, val |-> r.val]
    /\ UNCHANGED <<pc, arg, files, fs, threads>>

GetAttr ==
    \E name \in AttributeNames :
        Call("getattr", <<name>>, getattribute(layout, name))

GetPathInfo ==
    \E name \in InfoNames :
        LET r == get_path_info(layout.config, name)
        IN  Call("get_path_info", <<name>>,
                 Outcome([layout EXCEPT !.config = r.self], r.val))

GetPaths ==
    \E directory \in BOOLEAN, include_optional \in BOOLEAN :
        LET r == get_paths(layout, directory, include_optional)
        IN  Call("get_paths", <<directory, include_optional>>,
                 Outcome(r.self, ListVal(r.val)))

Validate ==
    Call("validate", <<>>, validate(layout, fs))

GetDpathPipeline ==
    \E n \in PipelineNames, v \in PipelineVersions :
        LET r == get_dpath_pipeline(layout, n, v)
        IN  Call("get_dpath_pipeline", <<n, v>>, Outcome(r.self, PathVal(r.val)))

GetDpathPipelineWork ==
    \E n \in PipelineNames, v \in PipelineVersions,
       p \in Participants, s \in Sessions :
        LET r == get_dpath_pipeline_work(layout, n, v, p, s)
        IN  Call("get_dpath_pipeline_work", <<n, v, p, s>>,
                 Outcome(r.self, PathVal(r.val)))

GetDpathPipelineOutput ==
    \E n \in PipelineNames, v \in PipelineVersions :
        LET r == get_dpath_pipeline_output(layout, n, v)
        IN  Call("get_dpath_pipeline_output", <<n, v>>,
                 Outcome(r.self, PathVal(r.val)))

GetDpathBidsDb ==
    \E n \in PipelineNames, v \in PipelineVersions,
       p \in Participants, s \in Sessions :
        LET r == get_dpath_bids_db(layout, n, v, p, s)
        IN  Call("get_dpath_bids_db", <<n, v, p, s>>,
                 Outcome(r.self, PathVal(r.val)))

Next ==
    \/ Construct /\ UNCHANGED hist
    \/ GetAttr /\ UNCHANGED hist
    \/ GetPathInfo /\ UNCHANGED hist
    \/ GetPaths /\ UNCHANGED hist
    \/ Validate /\ UNCHANGED hist
    \/ GetDpathPipeline /\ UNCHANGED hist
    \/ GetDpathPipelineWork /\ UNCHANGED hist
    \/ GetDpathPipelineOutput /\ UNCHANGED hist
    \/ GetDpathBidsDb /\ UNCHANGED hist

Spec == Init /\ [][Next]_vars


(***************************************************************************)
(* The dataset directory changes under the caller: entries are removed     *)
(* (with what is below them) and created (with what is above them).        *)
(***************************************************************************)
\* the paths of the layout and their ancestors, below the root's own
Removable ==
    UNION { Ancestors(get_full_path(layout, layout.config.fields[l].path)) : l \in Labels }
    \ Ancestors(layout.dpath_root)

DiskAllowed(nodes, disk) ==
    \/ Cardinality(nodes \ disk) <= MaxMissing
    \/ Cardinality(nodes \cap disk) <= MaxMissing

InitFs ==
    /\ InitCaller
    /\ fs \in { FreshDisk(arg.dpath_root) }
              \cup (IF TheDocument # Absent /\ ConfigValid(TheDocument)
                    THEN { DiskNodes(arg.dpath_root, TheDocument) } ELSE {})

\* the last outcome does not describe the disk after a change
DiskChange(nodes, disk) ==
    /\ disk # fs
    /\ DiskAllowed(nodes, disk)
    /\ fs' = disk
    /\ ret' = Idle
    /\ UNCHANGED <<pc, arg, files, layout, hist, threads>>

Remove ==
    /\ pc = "ready"
    /\ \E nodes \in {Removable} : \E p \in nodes :
          \E disk \in {{q \in fs : ~IsUnder(q, p)}} : DiskChange(nodes, disk)

Create ==
    /\ pc = "ready"
    /\ \E nodes \in {Removable} : \E p \in nodes :
          \E disk \in {fs \cup Ancestors(p)} : DiskChange(nodes, disk)

NextFs ==
    \/ Construct /\ UNCHANGED hist
    \/ Validate /\ UNCHANGED hist
    \/ Remove
    \/ Create

SpecFs == InitFs /\ [][NextFs]_vars

(***************************************************************************)
(* Observers of the pipeline calls.  SpecWork remembers the work-directory *)
(* call before the current call; SpecOutput remembers the first output     *)
(* call and the participants of the work and database calls after it.      *)
(***************************************************************************)
CallRecord(r) == [args |-> r.args, val |-> r.val]

ObserveWork ==
    hist' = [hist EXCEPT !.work = IF ret.op = "get_dpath_pipeline_work"
                                  THEN CallRecord(ret) ELSE @]

NextWork ==
    \/ Construct /\ ObserveWork
    \/ GetDpathPipeline /\ ObserveWork
    \/ GetDpathPipelineWork /\ ObserveWork
    \/ GetDpathPipelineOutput /\ ObserveWork

SpecWork == Init /\ [][NextWork]_vars

ObserveOutput ==
    hist' = [hist EXCEPT
                !.first = IF @ = NoneVal /\ ret'.op = "get_dpath_pipeline_output"
                          THEN CallRecord(ret') ELSE @,
                !.seen = IF hist.first # NoneVal
                            /\ ret'.op \in {"get_dpath_pipeline_work", "get_dpath_bids_db"}
                         THEN @ \cup {ret'.args[3]} ELSE @]

NextOutput ==
    \/ Construct /\ ObserveOutput
    \/ GetDpathPipelineWork /\ ObserveOutput
    \/ GetDpathPipelineOutput /\ ObserveOutput
    \/ GetDpathBidsDb /\ ObserveOutput

SpecOutput == Init /\ [][NextOutput]_vars


(***************************************************************************)
(* Readers of the memoized views on several threads.  cached_property      *)
(* takes no lock: a reader checks the instance dictionary, on a miss runs  *)
(* the function (which may read another memoized view), stores the value   *)
(* and returns it.  Threads interleave between these steps.                *)
(***************************************************************************)
Threads == {"t1", "t2"}
ConfigViews == {"path_labels", "path_infos"}
LayoutViews == {"dpaths", "fpaths", "dpath_descriptions"}
Views == ConfigViews \cup LayoutViews

\* the memoized view that a view's function reads first, if any
ViewRead(view) ==
    IF view = "path_labels" THEN NoneVal
    ELSE IF view = "path_infos" THEN StrVal("path_labels")
    ELSE StrVal("path_infos")

\* the function under cached_property, given the view it has read
ViewFunc(view, self, input) ==
    IF view = "path_labels" THEN LabelsOf(self.config)
    ELSE IF view = "path_infos" THEN InfosOf(self.config, input)
    ELSE IF view = "dpaths" THEN PathsOf(self, input, TRUE, FALSE)
    ELSE IF view = "fpaths" THEN PathsOf(self, input, FALSE, FALSE)
    ELSE DescriptionsOf(self, input)

\* val = cache.get(self.attrname, _NOT_FOUND)
CacheRead(self, view) ==
    IF view \in ConfigViews THEN self.config.cache[view] ELSE self.cache[view]

\* a store that extends the list already in the dictionary
CacheStore_extend(self, view, val) ==
    LET old == CacheRead(self, view)
        new == IF old = NoneVal THEN Cached(val) ELSE Cached(old.v \o val)
    IN  IF view \in ConfigViews
        THEN [self EXCEPT !.config.cache[view] = new]
        ELSE [self EXCEPT !.cache[view] = new]

\* cache[self.attrname] = val
CacheStore(self, view, val) ==
    IF view \in ConfigViews
    THEN [self EXCEPT !.config.cache[view] = Cached(val)]
    ELSE [self EXCEPT !.cache[view] = Cached(val)]

Frame(view, at, val) == [view |-> view, at |-> at, val |-> val]
IdleThread == [stack |-> <<>>, got |-> NoneVal]
Top(t) == threads[t].stack[Len(threads[t].stack)]
Running(t, at) == threads[t].stack # <<>> /\ Top(t).at = at
ReplaceTop(t, frame) ==
    [threads[t] EXCEPT !.stack[Len(threads[t].stack)] = frame]

\* the top call of thread t returns val: to the reader, or into the
\* function that read the view
Returned(t, val, stored) ==
    LET stack == threads[t].stack
        n == Len(stack)
    IN  IF n = 1
        THEN [stack |-> <<>>,
              got |-> [view |-> stack[1].view, val |-> val, stored |-> stored]]
        ELSE [threads[t] EXCEPT
                !.stack = Append(SubSeq(stack, 1, n - 2),
                                 Frame(stack[n - 1].view, "resume", val))]

\* the layouts the threads read: the default one, and one of a document
\* of the caller's
ThreadScenarios ==
    {sc \in Scenarios :
        \E d \in {sc.files[CHOOSE p \in DOMAIN sc.files : TRUE]} :
            d = DefaultDocument \/ d = Override(DefaultDocument, Overrides)}

InitThreads ==
    /\ pc = "ready"
    /\ \E sc \in ThreadScenarios :
          /\ arg = [dpath_root |-> sc.dpath_root, fpath_config |-> sc.fpath_config]
          /\ files = sc.files
          /\ \E r \in {init(sc.dpath_root, sc.fpath_config, sc.files)} :
                /\ ~IsRaise(r.val)
                /\ layout = r.self
    /\ fs = FreshDisk(arg.dpath_root)
    /\ ret = Idle
    /\ hist = NoHist
    /\ threads = [t \in Threads |-> IdleThread]

\* a thread reads a memoized view
Read(t) ==
    /\ threads[t].stack = <<>>
    /\ \E view \in Views :
          threads' = [threads EXCEPT ![t] =
                         [stack |-> <<Frame(view, "check", NoneVal)>>, got |-> NoneVal]]
    /\ UNCHANGED layout

\* a hit returns the stored value, a miss goes on to the function
Check(t) ==
    /\ Running(t, "check")
    /\ \E c \in {CacheRead(layout, Top(t).view)} :
          threads' = [threads EXCEPT ![t] =
                         IF c # NoneVal THEN Returned(t, c.v, FALSE)
                         ELSE ReplaceTop(t, Frame(Top(t).view, "func", NoneVal))]
    /\ UNCHANGED layout

\* the function starts: it computes at once, or reads another view first
Func(t) ==
    /\ Running(t, "func")
    /\ \E view \in {Top(t).view} :
          threads' = [threads EXCEPT ![t] =
                         IF ViewRead(view) = NoneVal
                         THEN ReplaceTop(t, Frame(view, "store",
                                                  ViewFunc(view, layout, NoneVal)))
                         ELSE [threads[t] EXCEPT !.stack =
                                  Append(SubSeq(@, 1, Len(@) - 1), Frame(view, "wait", NoneVal))
                                  \o <<Frame(ViewRead(view).s, "check", NoneVal)>>]]
    /\ UNCHANGED layout

\* the function goes on with the view it has read
Resume(t) ==
    /\ Running(t, "resume")
    /\ threads' = [threads EXCEPT ![t] =
                      ReplaceTop(t, Frame(Top(t).view, "store",
                                          ViewFunc(Top(t).view, layout, Top(t).val)))]
    /\ UNCHANGED layout

\* the value is stored in the instance dictionary and returned
Store(t) ==
    /\ Running(t, "store")
    /\ layout' = CacheStore(layout, Top(t).view, Top(t).val)
    /\ threads' = [threads EXCEPT ![t] = Returned(t, Top(t).val, TRUE)]

Step(A(_)) ==
    /\ \E t \in Threads : A(t)
    /\ UNCHANGED <<pc, arg, files, fs, ret, hist>>

NextThreads ==
    \/ Step(Read)
    \/ Step(Check)
    \/ Step(Func)
    \/ Step(Resume)
    \/ Step(Store)

SpecThreads == InitThreads /\ [][NextThreads]_vars

(***************************************************************************)
(* What the claims compare the outcomes with, computed from the           *)
(* constructor's arguments and the document on disk.                       *)
(***************************************************************************)
Root == PathOf(arg.dpath_root)
Resolved(label) == PathJoin(Root, PathOf(TheDocument[label]["path"].s))

IsDirectoryLabel(label) == FieldType(label) = "DpathInfo"
IsOptionalLabel(label) == FieldType(label) = "OptionalFpathInfo"
RequiredLabels == {l \in Labels : ~IsOptionalLabel(l)}

\* the labels of one kind, in declaration order, resolved
ExpectedPaths(directory, include_optional) ==
    LET keep(l) == /\ IsDirectoryLabel(l) = directory
                   /\ (include_optional \/ ~IsOptionalLabel(l))
    IN  Then(SelectSeq(Fields, keep), LAMBDA ls :
            [i \in 1..Len(ls) |-> Resolved(ls[i])])

Elements(seq) == {seq[i] : i \in 1..Len(seq)}

\* C1: looking up a declared label as an attribute returns the root joined
\* with the document's path for that label, whatever was called before.
C1_LookupIsRootJoinedWithPath ==
    (ret.op = "getattr" /\ ret.args[1] \in Labels)
        => ret.val = PathVal(Resolved(ret.args[1]))

\* a label looked up after validate() and dpath_descriptions have filled
\* every cache of the layout and of its config
C1_Witness ==
    /\ ret.op = "getattr"
    /\ ret.args[1] = "fpath_manifest"
    /\ ret.val.k = "path"
    /\ layout.cache.dpaths # NoneVal
    /\ layout.cache.fpaths # NoneVal
    /\ layout.cache.dpath_descriptions # NoneVal
    /\ layout.config.cache.path_infos # NoneVal

\* C4: a layout exists only if the document's keys are exactly the fields;
\* a document with a field missing or a key added fails with a validation
\* error, and a failed construction leaves no layout.
C4_LoadOnlyExactLabelSet ==
    /\ layout # NoneVal =>
          /\ pc = "ready"
          /\ TheDocument # Absent
          /\ DOMAIN TheDocument = Labels
          /\ DOMAIN layout.config.fields = Labels
    /\ pc = "failed" => layout = NoneVal /\ IsRaise(ret.val)
    /\ (pc # "start" /\ TheDocument # Absent /\ DOMAIN TheDocument # Labels)
          => pc = "failed" /\ ret.val = Raise("ValidationError")
    /\ pc = "ready" => layout # NoneVal

\* a document with every field and one key more was refused
C4_Witness ==
    /\ pc = "failed"
    /\ TheDocument # Absent
    /\ Labels \subseteq DOMAIN TheDocument
    /\ "dpath_extra" \in DOMAIN TheDocument
    /\ ret.val = Raise("ValidationError")
    /\ layout = NoneVal

\* C7: get_path_info raises for every name that is not a declared label,
\* and returns a PathInfo only for declared labels.
C7_GetPathInfoRejectsNonLabels ==
    ret.op = "get_path_info" =>
        /\ ret.args[1] \notin Labels => IsRaise(ret.val)
        /\ ret.val.k = "info" => ret.args[1] \in Labels

\* C8: get_paths returns, in declaration order, the resolved paths of the
\* entries of the asked kind, the optional ones only on request; dpaths and
\* fpaths are get_paths(True, False) and get_paths(False, False); with the
\* optional entries the two kinds count all the labels, without them all
\* but the optional ones.
C8_GetPathsFiltersInOrder ==
    /\ ret.op = "get_paths" =>
          /\ ret.val.l = ExpectedPaths(ret.args[1], ret.args[2])
          /\ ret.args[2] =>
                Len(ret.val.l) + Len(get_paths(layout, ~ret.args[1], TRUE).val)
                    = Len(Fields)
    /\ (ret.op = "getattr" /\ ret.args[1] = "dpaths") =>
          /\ ret.val.l = ExpectedPaths(TRUE, FALSE)
          /\ ret.val.l = get_paths(layout, TRUE, FALSE).val
    /\ (ret.op = "getattr" /\ ret.args[1] = "fpaths") =>
          /\ ret.val.l = ExpectedPaths(FALSE, FALSE)
          /\ ret.val.l = get_paths(layout, FALSE, FALSE).val
    /\ (pc = "ready" /\ layout.cache.dpaths # NoneVal /\ layout.cache.fpaths # NoneVal) =>
          Len(layout.cache.dpaths.v) + Len(layout.cache.fpaths.v)
              = Len(Fields) - Cardinality({l \in Labels : IsOptionalLabel(l)})

\* the files were listed with the optional ones, after dpaths and fpaths
C8_Witness ==
    /\ ret.op = "get_paths"
    /\ ret.args = <<FALSE, TRUE>>
    /\ Len(ret.val.l) = 4
    /\ layout.cache.dpaths # NoneVal
    /\ layout.cache.fpaths # NoneVal
    /\ Len(layout.cache.fpaths.v) = 2

\* C10: every path the layout returns for a label, in a listing or for a
\* pipeline lies under the dataset root.
C10_EveryPathUnderRoot ==
    pc = "ready" =>
        /\ (ret.op = "getattr" /\ ret.args[1] \in Labels) => IsUnder(ret.val.p, Root)
        /\ ret.op = "get_paths" => \A p \in Elements(ret.val.l) : IsUnder(p, Root)
        /\ ret.op \in {"get_dpath_pipeline", "get_dpath_pipeline_work",
                       "get_dpath_pipeline_output", "get_dpath_bids_db"}
              => IsUnder(ret.val.p, Root)

\* C2: validate() returns True exactly when every required path exists and
\* raises otherwise; the outcome is the same on every disk that differs
\* only in the optional files.
OptionalOnlyPaths ==
    {Resolved(l) : l \in Labels \ RequiredLabels}
    \ UNION {Ancestors(Resolved(l)) : l \in RequiredLabels}

C2_ValidateChecksRequiredOnly ==
    ret.op = "validate" =>
        /\ (ret.val = [k |-> "bool", b |-> TRUE])
              <=> (\A l \in RequiredLabels : Resolved(l) \in fs)
        /\ ret.val.k # "bool" => ret.val.k = "raise" /\ ret.val.exc = "FileNotFoundError"
        /\ \A S \in SUBSET OptionalOnlyPaths :
              /\ validate(layout, fs \ S).val = ret.val
              /\ validate(layout, fs \cup S).val = ret.val

\* validate() returned True on a disk without the doughnut file
C2_Witness ==
    /\ ret.op = "validate"
    /\ ret.val = [k |-> "bool", b |-> TRUE]
    /\ Resolved("fpath_doughnut") \notin fs
    /\ Resolved("fpath_doughnut") \in OptionalOnlyPaths

\* C3: the error of validate() lists every required path that is missing,
\* no path that exists, in declaration order, and no path twice.
C3_MissingListCompleteNoDuplicates ==
    (ret.op = "validate" /\ IsRaise(ret.val)) =>
        LET m == ret.val.missing
            absent(p) == p \notin fs
        IN  /\ \A l \in RequiredLabels : Resolved(l) \notin fs => Resolved(l) \in Elements(m)
            /\ \A p \in Elements(m) : p \notin fs
            /\ m = SelectSeq(ExpectedPaths(TRUE, FALSE) \o ExpectedPaths(FALSE, FALSE), absent)
            /\ \A i, j \in 1..Len(m) : i # j => m[i] # m[j]

\* the directory of a pipeline version: the derivatives directory, then the
\* name and the version as one part each
PipelineDir(name, version) ==
    [anchor |-> Resolved("dpath_derivatives").anchor,
     parts |-> Resolved("dpath_derivatives").parts \o <<name, version>>]
Below(p, part) == [anchor |-> p.anchor, parts |-> Append(p.parts, part)]

C6_WorkDirectoriesArePartitioned ==
    ret.op = "get_dpath_pipeline_work" =>
        /\ ( /\ hist.work # NoneVal
             /\ hist.work.args[1] = ret.args[1]
             /\ hist.work.args[2] = ret.args[2]
             /\ hist.work.args[4] = ret.args[4]
             /\ hist.work.args[3] # ret.args[3] ) => hist.work.val # ret.val
        /\ IsUnder(ret.val.p, Below(PipelineDir(ret.args[1], ret.args[2]), Chars_work))
        /\ IsUnder(ret.val.p,
                   PathJoinStr(get_dpath_pipeline(layout, ret.args[1], ret.args[2]).val,
                               Chars_work))
        /\ ret.val.p # Below(PipelineDir(ret.args[1], ret.args[2]), Chars_work)
        /\ ret.val.p # get_dpath_pipeline_output(layout, ret.args[1], ret.args[2]).val

\* two work directories were asked for in a row, for two participants of
\* one session of one pipeline version
C6_Witness ==
    /\ ret.op = "get_dpath_pipeline_work"
    /\ hist.work # NoneVal
    /\ hist.work.args[1] = ret.args[1]
    /\ hist.work.args[2] = ret.args[2]
    /\ hist.work.args[4] = ret.args[4]
    /\ hist.work.args[3] # NoneVal
    /\ ret.args[3] # NoneVal
    /\ hist.work.args[3] # ret.args[3]
    /\ ret.args[4] # NoneVal


\* the views computed without memoization, from the document on disk
Unmemoized(view) ==
    IF view = "path_labels" THEN Fields
    ELSE IF view = "path_infos"
    THEN [i \in 1..Len(Fields) |-> MakePathInfo(Fields[i], TheDocument[Fields[i]])]
    ELSE IF view = "dpaths" THEN ExpectedPaths(TRUE, FALSE)
    ELSE IF view = "fpaths" THEN ExpectedPaths(FALSE, FALSE)
    ELSE DescriptionsOf(layout, InfosOf(layout.config, Fields))

\* C9: under every interleaving of the readers' steps, every reader gets
\* the value of the unmemoized computation, and the dictionary entry of a
\* view, once written, holds that value and no other.
C9_RacingReadersAgree ==
    /\ \A t \in DOMAIN threads :
          threads[t].got # NoneVal =>
              threads[t].got.val = Unmemoized(threads[t].got.view)
    /\ threads # NoThreads =>
          \A view \in Views :
              CacheRead(layout, view) # NoneVal =>
                  CacheRead(layout, view).v = Unmemoized(view)

\* both threads missed dpaths, computed it and stored it: two racing writes
C9_Witness ==
    /\ threads # NoThreads
    /\ \A t \in Threads :
          /\ threads[t].got # NoneVal
          /\ threads[t].got.view = "dpaths"
          /\ threads[t].got.stored

=============================================================================
